---------------------------- MODULE Spec2Model ----------------------------
(***************************************************************************)
(* InsuraPro CRM (src/2 C++ Programming/insurapro): the in-memory vector   *)
(* of customers, each owning its interactions, the two pipe-delimited data *)
(* files, and the menu loop of main.cpp that drives them.                  *)
(*                                                                         *)
(* A std::string is a sequence of one-character strings; a file is the     *)
(* sequence of the lines std::getline returns.  C++ indices are 0-based    *)
(* and are kept so: element i of a vector is v[i + 1] here.                *)
(***************************************************************************)
EXTENDS Integers, Sequences, FiniteSets, TLC

VARIABLES
    clienti,          \* CRM::clienti, std::vector<Cliente>
    fileClienti,      \* lines of data/clienti.txt
    fileInterazioni,  \* lines of data/interazioni.txt
    pc,               \* position of main(): "avvio", "menu", "interazioni", "fine"
    esito,            \* the message the last operation printed, as a tag
    risultati,        \* the hits the last search printed, in print order
    passi             \* menu choices made so far in this session

vars == <<clienti, fileClienti, fileInterazioni, pc, esito, risultati, passi>>

-----------------------------------------------------------------------------
(* Bounds of the exploration *)

MaxClienti == 2       \* customers typed in through the menu
MaxInterazioni == 2   \* interactions typed in per customer
MaxPassi == 4         \* menu choices per session (leaving, choice 0, is always possible)
MaxRighe == 2         \* lines per data file found on disk at startup

-----------------------------------------------------------------------------
(* Characters and std::string primitives *)

Maiuscole == <<"A","B","C","D","E","F","G","H","I","J","K","L","M",
               "N","O","P","Q","R","S","T","U","V","W","X","Y","Z">>
Minuscole == <<"a","b","c","d","e","f","g","h","i","j","k","l","m",
               "n","o","p","q","r","s","t","u","v","w","x","y","z">>
Cifre == {"0","1","2","3","4","5","6","7","8","9"}

LettereMaiuscole == {Maiuscole[k] : k \in 1..26}

\* ::tolower in the C locale: A-Z go to a-z, every other character is kept
tolower(c) ==
    IF c \in LettereMaiuscole
    THEN Minuscole[CHOOSE k \in 1..26 : Maiuscole[k] = c]
    ELSE c

\* transform(s.begin(), s.end(), s.begin(), ::tolower)
InMinuscolo(s) == [k \in 1..Len(s) |-> tolower(s[k])]

isdigit(c) == c \in Cifre

\* std::string::npos, the "not found" result of find
npos == -1

\* std::string::find(ago): the first 0-based position at which ago occurs
RECURSIVE findDa(_, _, _)
findDa(pagliaio, ago, p) ==
    IF p + Len(ago) > Len(pagliaio) THEN npos
    ELSE IF SubSeq(pagliaio, p + 1, p + Len(ago)) = ago THEN p
    ELSE findDa(pagliaio, ago, p + 1)

\* a find that gives up on an empty needle
findNonVuoto(pagliaio, ago) ==
    IF ago = <<>> THEN npos ELSE findDa(pagliaio, ago, 0)

find(pagliaio, ago) == findDa(pagliaio, ago, 0)

\* operator+ / operator<< on strings
RECURSIVE Concatena(_)
Concatena(parti) ==
    IF parti = <<>> THEN <<>> ELSE Head(parti) \o Concatena(Tail(parti))

-----------------------------------------------------------------------------
(* Record types *)

TipoInterazione == {"APPUNTAMENTO", "CONTRATTO", "TELEFONATA", "EMAIL", "ALTRO"}

\* Interazione::Interazione(data, ora, tipo, descrizione, agente, risultato)
Interazione(data, ora, tipo, descrizione, agente, risultato) ==
    [data |-> data, ora |-> ora, tipo |-> tipo,
     descrizione |-> descrizione, agente |-> agente, risultato |-> risultato]

\* Cliente::Cliente(nome, ..., dataNascita): the interaction vector starts empty
Cliente(nome, cognome, email, telefono, indirizzo, codiceFiscale, dataNascita) ==
    [nome |-> nome, cognome |-> cognome, email |-> email, telefono |-> telefono,
     indirizzo |-> indirizzo, codiceFiscale |-> codiceFiscale,
     dataNascita |-> dataNascita, interazioni |-> <<>>]

\* Interazione::getTipoStringa
getTipoStringa(tipo) ==
    IF tipo = "APPUNTAMENTO" THEN <<"A","p","p","u","n","t","a","m","e","n","t","o">>
    ELSE IF tipo = "CONTRATTO" THEN <<"C","o","n","t","r","a","t","t","o">>
    ELSE IF tipo = "TELEFONATA" THEN <<"T","e","l","e","f","o","n","a","t","a">>
    ELSE IF tipo = "EMAIL" THEN <<"E","m","a","i","l">>
    ELSE IF tipo = "ALTRO" THEN <<"A","l","t","r","o">>
    ELSE <<"S","c","o","n","o","s","c","i","u","t","o">>

\* Cliente::getNomeCompleto
getNomeCompleto(c) == c.nome \o <<" ">> \o c.cognome

\* an insertion at the front of the vector instead of the back
aggiungiInterazioneInTesta(c, interazione) ==
    [c EXCEPT !.interazioni = <<interazione>> \o @]

\* Cliente::aggiungiInterazione: push_back on the customer's own vector
aggiungiInterazione(c, interazione) ==
    [c EXCEPT !.interazioni = Append(@, interazione)]

\* the same search with the term left as typed instead of lower-cased
ClienteContieneStringaComeScritta(c, ricerca) ==
    IF find(InMinuscolo(c.nome), ricerca) # npos THEN TRUE
    ELSE IF find(InMinuscolo(c.cognome), ricerca) # npos THEN TRUE
    ELSE IF find(InMinuscolo(c.email), ricerca) # npos THEN TRUE
    ELSE IF find(InMinuscolo(c.telefono), ricerca) # npos THEN TRUE
    ELSE IF find(c.codiceFiscale, ricerca) # npos THEN TRUE
    ELSE FALSE

\* Cliente::contieneStringa
ClienteContieneStringa(c, ricerca) ==
    LET ricercaLower == InMinuscolo(ricerca) IN
    IF find(InMinuscolo(c.nome), ricercaLower) # npos THEN TRUE
    ELSE IF find(InMinuscolo(c.cognome), ricercaLower) # npos THEN TRUE
    ELSE IF find(InMinuscolo(c.email), ricercaLower) # npos THEN TRUE
    ELSE IF find(InMinuscolo(c.telefono), ricercaLower) # npos THEN TRUE
    ELSE IF find(c.codiceFiscale, ricerca) # npos THEN TRUE
    ELSE FALSE

\* the customer after a search that lower-cases the fields themselves
ClienteDopoContieneStringaSulPosto(c, ricerca) ==
    [c EXCEPT !.nome = InMinuscolo(@), !.cognome = InMinuscolo(@),
              !.email = InMinuscolo(@), !.telefono = InMinuscolo(@)]

\* the customer after Cliente::contieneStringa, a method that is not const:
\* it lower-cases copies of the fields, so the fields are as they were
ClienteDopoContieneStringa(c, ricerca) == c

\* the same search with date and time lower-cased like the other fields
InterazioneContieneStringaTuttoMinuscolo(x, ricerca) ==
    LET ricercaLower == InMinuscolo(ricerca) IN
    IF find(InMinuscolo(x.descrizione), ricercaLower) # npos THEN TRUE
    ELSE IF find(InMinuscolo(x.agente), ricercaLower) # npos THEN TRUE
    ELSE IF find(InMinuscolo(x.risultato), ricercaLower) # npos THEN TRUE
    ELSE IF find(InMinuscolo(getTipoStringa(x.tipo)), ricercaLower) # npos THEN TRUE
    ELSE IF find(InMinuscolo(x.data), ricercaLower) # npos THEN TRUE
    ELSE IF find(InMinuscolo(x.ora), ricercaLower) # npos THEN TRUE
    ELSE FALSE

\* Interazione::contieneStringa
InterazioneContieneStringa(x, ricerca) ==
    LET ricercaLower == InMinuscolo(ricerca) IN
    IF find(InMinuscolo(x.descrizione), ricercaLower) # npos THEN TRUE
    ELSE IF find(InMinuscolo(x.agente), ricercaLower) # npos THEN TRUE
    ELSE IF find(InMinuscolo(x.risultato), ricercaLower) # npos THEN TRUE
    ELSE IF find(InMinuscolo(getTipoStringa(x.tipo)), ricercaLower) # npos THEN TRUE
    ELSE IF find(x.data, ricerca) # npos THEN TRUE
    ELSE IF find(x.ora, ricerca) # npos THEN TRUE
    ELSE FALSE

-----------------------------------------------------------------------------
(* Lookups and input validation *)

\* a lookup that never finds anything, as if the duplicate test were left out
trovaClienteSenzaControllo(cl, codiceFiscale) == -1

\* a scan that does not stop at the first match and so returns the last one
trovaClienteUltimo(cl, codiceFiscale) ==
    LET posti == {i \in 0..(Len(cl) - 1) : cl[i + 1].codiceFiscale = codiceFiscale}
    IN IF posti = {} THEN -1 ELSE CHOOSE i \in posti : \A j \in posti : j <= i

\* CRM::trovaCliente(codiceFiscale): 0-based index of the first match, or -1
RECURSIVE trovaClienteDa(_, _, _)
trovaClienteDa(cl, codiceFiscale, i) ==
    IF i >= Len(cl) THEN -1
    ELSE IF cl[i + 1].codiceFiscale = codiceFiscale THEN i
    ELSE trovaClienteDa(cl, codiceFiscale, i + 1)

trovaCliente(cl, codiceFiscale) == trovaClienteDa(cl, codiceFiscale, 0)

\* CRM::trovaCliente(nome, cognome)
RECURSIVE trovaClienteNomeDa(_, _, _, _)
trovaClienteNomeDa(cl, nome, cognome, i) ==
    IF i >= Len(cl) THEN -1
    ELSE IF cl[i + 1].nome = nome /\ cl[i + 1].cognome = cognome THEN i
    ELSE trovaClienteNomeDa(cl, nome, cognome, i + 1)

trovaClienteNome(cl, nome, cognome) == trovaClienteNomeDa(cl, nome, cognome, 0)

\* controllaEsistenzaCliente (gestione_errori.cpp): the same scan, -1 with a message
RECURSIVE controllaEsistenzaClienteDa(_, _, _)
controllaEsistenzaClienteDa(cl, codiceFiscale, i) ==
    IF i >= Len(cl) THEN -1
    ELSE IF cl[i + 1].codiceFiscale = codiceFiscale THEN i
    ELSE controllaEsistenzaClienteDa(cl, codiceFiscale, i + 1)

controllaEsistenzaCliente(cl, codiceFiscale) ==
    controllaEsistenzaClienteDa(cl, codiceFiscale, 0)

\* CRM::validaData: DD/MM/YYYY by shape only
validaData(data) ==
    IF Len(data) # 10 THEN FALSE
    ELSE IF data[3] # "/" \/ data[6] # "/" THEN FALSE
    ELSE \A k \in 0..9 : (k # 2 /\ k # 5) => isdigit(data[k + 1])

\* CRM::validaOra: HH:MM by shape only
validaOra(ora) ==
    IF Len(ora) # 5 THEN FALSE
    ELSE IF ora[3] # ":" THEN FALSE
    ELSE \A k \in 0..4 : (k # 2) => isdigit(ora[k + 1])

-----------------------------------------------------------------------------
(* The line format of the two data files *)

\* the field loop of caricaDati: cut a line at every '|'
RECURSIVE dividiDa(_, _, _, _)
dividiDa(linea, i, dati, campo) ==
    IF i >= Len(linea) THEN Append(dati, campo)
    ELSE IF linea[i + 1] = "|" THEN dividiDa(linea, i + 1, Append(dati, campo), <<>>)
    ELSE dividiDa(linea, i + 1, dati, Append(campo, linea[i + 1]))

dividi(linea) == dividiDa(linea, 0, <<>>, <<>>)

\* the number of fields a line must split into to be taken
NumeroCampi == 7

\* a length test a slip could turn into "at least seven"
accettataAlmeno(dati) == Len(dati) >= NumeroCampi

\* if (dati.size() == 7), in both loops of caricaDati
accettata(dati) == Len(dati) = NumeroCampi

\* the same chain comparing without regard to letter case
leggiTipoSenzaCaso(s) ==
    LET t == InMinuscolo(s) IN
    IF t = <<"a","p","p","u","n","t","a","m","e","n","t","o">> THEN "APPUNTAMENTO"
    ELSE IF t = <<"c","o","n","t","r","a","t","t","o">> THEN "CONTRATTO"
    ELSE IF t = <<"t","e","l","e","f","o","n","a","t","a">> THEN "TELEFONATA"
    ELSE IF t = <<"e","m","a","i","l">> THEN "EMAIL"
    ELSE "ALTRO"

\* the if/else-if chain of caricaDati that reads the kind back
leggiTipo(s) ==
    IF s = <<"A","p","p","u","n","t","a","m","e","n","t","o">> THEN "APPUNTAMENTO"
    ELSE IF s = <<"C","o","n","t","r","a","t","t","o">> THEN "CONTRATTO"
    ELSE IF s = <<"T","e","l","e","f","o","n","a","t","a">> THEN "TELEFONATA"
    ELSE IF s = <<"E","m","a","i","l">> THEN "EMAIL"
    ELSE IF s = <<"A","l","t","r","o">> THEN "ALTRO"
    ELSE "ALTRO"

\* the customer loop of caricaDati, from line n on
RECURSIVE leggiClienti(_, _, _)
leggiClienti(righe, n, cl) ==
    IF n >= Len(righe) THEN cl
    ELSE LET linea == righe[n + 1]
             dati == dividi(linea)
         IN IF linea = <<>> THEN leggiClienti(righe, n + 1, cl)
            ELSE IF accettata(dati)
                 THEN leggiClienti(righe, n + 1,
                          Append(cl, Cliente(dati[1], dati[2], dati[3], dati[4],
                                             dati[5], dati[6], dati[7])))
                 ELSE leggiClienti(righe, n + 1, cl)

\* the inner for of the interaction loop: first customer with that key, then break
RECURSIVE attaccaDa(_, _, _, _)
attaccaDa(cl, codiceFiscale, interazione, i) ==
    IF i >= Len(cl) THEN cl
    ELSE IF cl[i + 1].codiceFiscale = codiceFiscale
         THEN [cl EXCEPT ![i + 1] = aggiungiInterazione(@, interazione)]
         ELSE attaccaDa(cl, codiceFiscale, interazione, i + 1)

\* the same loop with its break forgotten: every customer with that key gets a copy
attaccaSenzaBreak(cl, codiceFiscale, interazione) ==
    [k \in 1..Len(cl) |->
        IF cl[k].codiceFiscale = codiceFiscale
        THEN aggiungiInterazione(cl[k], interazione)
        ELSE cl[k]]

attacca(cl, codiceFiscale, interazione) == attaccaDa(cl, codiceFiscale, interazione, 0)

\* the interaction loop of caricaDati, from line n on
RECURSIVE leggiInterazioni(_, _, _)
leggiInterazioni(righe, n, cl) ==
    IF n >= Len(righe) THEN cl
    ELSE LET linea == righe[n + 1]
             dati == dividi(linea)
         IN IF linea = <<>> THEN leggiInterazioni(righe, n + 1, cl)
            ELSE IF accettata(dati)
                 THEN leggiInterazioni(righe, n + 1,
                          attacca(cl, dati[1],
                                  Interazione(dati[2], dati[3], leggiTipo(dati[4]),
                                              dati[5], dati[6], dati[7])))
                 ELSE leggiInterazioni(righe, n + 1, cl)

\* a load that forgets to clear and so merges
svuotaMancante(cl) == cl

\* clienti.clear()
svuota(cl) == <<>>

\* CRM::caricaDati once both files are open: what the vector becomes
caricaDati(cl, righeClienti, righeInterazioni) ==
    leggiInterazioni(righeInterazioni, 0, leggiClienti(righeClienti, 0, svuota(cl)))

\* a load that clears the vector before it tests the two streams
dopoCaricaSvuotaPrima(cl, tuttiAperti, righeClienti, righeInterazioni) ==
    IF ~tuttiAperti THEN svuota(cl)
    ELSE caricaDati(cl, righeClienti, righeInterazioni)

\* CRM::caricaDati, the whole method: return at the open test, or clear and read
dopoCarica(cl, tuttiAperti, righeClienti, righeInterazioni) ==
    IF ~tuttiAperti THEN cl
    ELSE caricaDati(cl, righeClienti, righeInterazioni)

\* the customer line with its last two fields swapped: birth date before the key
rigaClienteScambiata(c) ==
    Concatena(<<c.nome, <<"|">>, c.cognome, <<"|">>, c.email, <<"|">>, c.telefono,
                <<"|">>, c.indirizzo, <<"|">>, c.dataNascita, <<"|">>, c.codiceFiscale>>)

\* the line salvaDati writes for a customer
rigaCliente(c) ==
    Concatena(<<c.nome, <<"|">>, c.cognome, <<"|">>, c.email, <<"|">>, c.telefono,
                <<"|">>, c.indirizzo, <<"|">>, c.codiceFiscale, <<"|">>, c.dataNascita>>)

\* the line salvaDati writes for an interaction of customer c
rigaInterazione(c, x) ==
    Concatena(<<c.codiceFiscale, <<"|">>, x.data, <<"|">>, x.ora, <<"|">>,
                getTipoStringa(x.tipo), <<"|">>, x.descrizione, <<"|">>, x.agente,
                <<"|">>, x.risultato>>)

\* salvaDati, outer loop: what goes to the customer file
RECURSIVE scriviClienti(_, _)
scriviClienti(cl, i) ==
    IF i >= Len(cl) THEN <<>>
    ELSE <<rigaCliente(cl[i + 1])>> \o scriviClienti(cl, i + 1)

\* salvaDati, inner loop: the interaction lines of one customer
RECURSIVE scriviInterazioniDi(_, _)
scriviInterazioniDi(c, j) ==
    IF j >= Len(c.interazioni) THEN <<>>
    ELSE <<rigaInterazione(c, c.interazioni[j + 1])>> \o scriviInterazioniDi(c, j + 1)

\* salvaDati, both loops: what goes to the interaction file
RECURSIVE scriviInterazioni(_, _)
scriviInterazioni(cl, i) ==
    IF i >= Len(cl) THEN <<>>
    ELSE scriviInterazioniDi(cl[i + 1], 0) \o scriviInterazioni(cl, i + 1)

\* a save that writes to whichever stream did open before it gives up
dopoSalvaParziale(vecchio, aperto, tuttiAperti, righe) ==
    IF ~aperto THEN vecchio ELSE righe

\* a file after std::ofstream opened it (truncating) and salvaDati ran or gave up
dopoSalva(vecchio, aperto, tuttiAperti, righe) ==
    IF ~aperto THEN vecchio
    ELSE IF tuttiAperti THEN righe
    ELSE <<>>

\* vector::erase(begin() + indice)
erase(v, indice) == SubSeq(v, 1, indice) \o SubSeq(v, indice + 2, Len(v))

\* Cliente::rimuoviInterazione: erase at the index if it is in range, else nothing
rimuoviInterazione(c, indice) ==
    IF indice >= 0 /\ indice < Len(c.interazioni)
    THEN [c EXCEPT !.interazioni = erase(@, indice)]
    ELSE c

\* setters called without the empty() test
nuovoValoreSempre(vecchio, nuovo) == nuovo

\* the setter calls of modificaCliente: an empty answer keeps the field
nuovoValore(vecchio, nuovo) == IF nuovo # <<>> THEN nuovo ELSE vecchio

\* the confirmation test of eliminaCliente
confermato(conferma) == conferma = "si" \/ conferma = "SI" \/ conferma = "Si"

\* the search loop of cercaCliente, from customer i on
RECURSIVE cercaClienteDa(_, _, _)
cercaClienteDa(cl, ricerca, i) ==
    IF i >= Len(cl) THEN <<>>
    ELSE (IF ClienteContieneStringa(cl[i + 1], ricerca)
          THEN <<[i |-> i, cliente |-> cl[i + 1]]>>
          ELSE <<>>) \o cercaClienteDa(cl, ricerca, i + 1)

\* the inner search loop of cercaInterazioni over the copy of customer i's vector
RECURSIVE cercaInterazioniDi(_, _, _, _)
cercaInterazioniDi(cl, ricerca, i, j) ==
    IF j >= Len(cl[i + 1].interazioni) THEN <<>>
    ELSE (IF InterazioneContieneStringa(cl[i + 1].interazioni[j + 1], ricerca)
          THEN <<[i |-> i, nomeCompleto |-> getNomeCompleto(cl[i + 1]), j |-> j,
                  interazione |-> cl[i + 1].interazioni[j + 1]]>>
          ELSE <<>>) \o cercaInterazioniDi(cl, ricerca, i, j + 1)

\* the outer search loop of cercaInterazioni, from customer i on
RECURSIVE cercaInterazioniDa(_, _, _)
cercaInterazioniDa(cl, ricerca, i) ==
    IF i >= Len(cl) THEN <<>>
    ELSE cercaInterazioniDi(cl, ricerca, i, 0) \o cercaInterazioniDa(cl, ricerca, i + 1)

-----------------------------------------------------------------------------
(* What the user types and what lies on disk: the values the exploration uses *)

Vuota == <<>>
sMario == <<"M","a","r","i","o">>
sRossi == <<"R","o","s","s","i">>
sAnna == <<"A","n","n","a">>
sEmail == <<"m","@","X",".","i","t">>
sTelefono == <<"3","3","3">>
sRoma == <<"R","o","m","a">>
sNascita == <<"1","9","8","0">>
sConBarra == <<"A","|","B">>
sRSS == <<"R","S","S","1">>
sVRD == <<"V","R","D","2">>
sAssente == <<"Z","Z","Z","9">>
sLuca == <<"L","u","c","a">>
sPisa == <<"P","i","s","a">>
sData == <<"0","1","/","0","6","/","2","0","2","4">>
sDataErrata == <<"1","/","6","/","2","4">>
sOra == <<"1","0",":","0","0">>
sOraErrata == <<"1","0",".","0","0">>
sVisita == <<"V","i","s","i","t","a">>
sLuigi == <<"L","u","i","g","i">>
sFatto == <<"O","k">>

\* answers to the seven prompts of aggiungiCliente
ClientiInput ==
    { Cliente(sMario, sRossi, sEmail, sTelefono, sRoma, sRSS, sNascita),
      Cliente(sAnna, Vuota, Vuota, Vuota, Vuota, sRSS, Vuota),
      Cliente(sConBarra, sRossi, Vuota, Vuota, Vuota, sVRD, Vuota),
      Cliente(Vuota, Vuota, Vuota, Vuota, Vuota, Vuota, Vuota) }

\* answers to a "codice fiscale" prompt
CodiciInput == {sRSS, sVRD, sAssente, Vuota}

\* answers to the six prompts of modificaCliente
ModificheInput ==
    { [nome |-> sLuca, cognome |-> Vuota, email |-> Vuota, telefono |-> sTelefono,
       indirizzo |-> sPisa, dataNascita |-> Vuota],
      [nome |-> Vuota, cognome |-> sRossi, email |-> sEmail, telefono |-> Vuota,
       indirizzo |-> Vuota, dataNascita |-> sNascita],
      [nome |-> Vuota, cognome |-> Vuota, email |-> Vuota, telefono |-> Vuota,
       indirizzo |-> Vuota, dataNascita |-> Vuota] }

\* answers to "Sei sicuro? (si/no)"
ConfermeInput == {"si", "SI", "Si", "sI", "no"}

\* answers to the prompts of aggiungiInterazione
InterazioniInput ==
    { Interazione(sData, sOra, "APPUNTAMENTO", sVisita, sLuigi, sFatto),
      Interazione(sData, sOra, "EMAIL", sConBarra, Vuota, Vuota),
      Interazione(sDataErrata, sOra, "ALTRO", sVisita, sLuigi, sFatto),
      Interazione(sData, sOraErrata, "CONTRATTO", sVisita, sLuigi, sFatto) }

\* search terms typed at "Cerca cliente"
TerminiClienti ==
    { Vuota,
      <<"m","a","r","i","o">>, <<"M","A","R","I","O">>, <<"L","U","C","A">>,
      <<"o","s","s">>, <<"x",".","i","t">>, <<"3","3">>,
      <<"R","S","S">>, <<"r","s","s">>, <<"R","o","m","a">>, <<"1","9","8","0">> }

\* search terms typed at "Cerca interazioni"
TerminiInterazioni ==
    { Vuota,
      <<"V","I","S","I","T","A">>, <<"l","u","i","g","i">>, <<"O","K">>,
      <<"T","E","L","E","F">>, <<"/","0","6","/">>, <<"1","0",":">>,
      <<"G","I","U">>, <<"G","i","u">> }

\* whether a std::ifstream / std::ofstream could be opened
Aperture == BOOLEAN

\* a line of a data file as a text editor would leave it: fields joined by '|'
RECURSIVE Unisci(_)
Unisci(campi) ==
    IF Len(campi) = 1 THEN campi[1]
    ELSE campi[1] \o <<"|">> \o Unisci(Tail(campi))

sAppuntamento == <<"A","p","p","u","n","t","a","m","e","n","t","o">>
sTelefonata == <<"T","e","l","e","f","o","n","a","t","a">>
sMinuscolo == <<"e","m","a","i","l">>
sGiugno == <<"1","G","i","u">>

rMario == Unisci(<<sMario, sRossi, sEmail, sTelefono, sRoma, sRSS, sNascita>>)
rAnna == Unisci(<<sAnna, Vuota, Vuota, Vuota, Vuota, sRSS, Vuota>>)
rLuca == Unisci(<<sLuca, sRossi, Vuota, Vuota, sPisa, sVRD, Vuota>>)
rCinque == Unisci(<<sAnna, sRossi, sEmail, sTelefono, sRoma>>)
rOtto == Unisci(<<sAnna, sRossi, sEmail, sTelefono, sRoma, sVRD, sNascita, sFatto>>)

xMario == Unisci(<<sRSS, sData, sOra, sAppuntamento, sVisita, sLuigi, sFatto>>)
xMarioDue == Unisci(<<sRSS, sData, sOra, sTelefonata, Vuota, sLuigi, Vuota>>)
xLuca == Unisci(<<sVRD, sGiugno, sOra, sMinuscolo, sVisita, Vuota, sFatto>>)
xOrfana == Unisci(<<sAssente, sData, sOra, sAppuntamento, sVisita, sLuigi, sFatto>>)
xSei == Unisci(<<sRSS, sData, sOra, sAppuntamento, sVisita, sLuigi>>)

\* the pairs of data files a session of the menu may find on disk
DischiIniziali ==
    { [c |-> <<>>, x |-> <<>>],
      [c |-> <<rMario, rAnna, rCinque>>, x |-> <<xMario, xOrfana>>],
      [c |-> <<rMario, Vuota, rLuca>>, x |-> <<xMario, xLuca, xMarioDue, xSei>>] }

-----------------------------------------------------------------------------
(* The program: main() and the CRM methods it calls *)

\* CRM::CRM and the first lines of main: nothing in memory, whatever is on disk
Init ==
    /\ clienti = <<>>
    /\ \E d \in DischiIniziali : fileClienti = d.c /\ fileInterazioni = d.x
    /\ pc = "avvio"
    /\ esito = "Benvenuto"
    /\ risultati = <<>>
    /\ passi = 0

\* a menu choice read by cin >> scelta while the main menu is shown
SceltaMenu ==
    /\ pc = "menu"
    /\ passi < MaxPassi
    /\ passi' = passi + 1

\* a menu choice read while the interaction menu is shown
SceltaInterazioni ==
    /\ pc = "interazioni"
    /\ passi < MaxPassi
    /\ passi' = passi + 1

\* main, lines 61-65: the load at startup; a failure only prints a message
Avvio(apreClienti, apreInterazioni) ==
    /\ pc = "avvio"
    /\ pc' = "menu"
    /\ esito' = IF apreClienti /\ apreInterazioni THEN "Caricato" ELSE "NessunDato"
    /\ clienti' = dopoCarica(clienti, apreClienti /\ apreInterazioni,
                             fileClienti, fileInterazioni)
    /\ risultati' = <<>>
    /\ UNCHANGED <<fileClienti, fileInterazioni, passi>>

\* CRM::aggiungiCliente (menu 1)
AggiungiCliente(nuovoCliente) ==
    /\ SceltaMenu
    /\ IF trovaCliente(clienti, nuovoCliente.codiceFiscale) # -1
       THEN /\ esito' = "GiaPresente"
            /\ clienti' = clienti
       ELSE /\ Len(clienti) < MaxClienti
            /\ esito' = "Aggiunto"
            /\ clienti' = Append(clienti, nuovoCliente)
    /\ risultati' = <<>>
    /\ UNCHANGED <<fileClienti, fileInterazioni, pc>>

\* CRM::visualizzaClienti (menu 2)
VisualizzaClienti ==
    /\ SceltaMenu
    /\ esito' = IF clienti = <<>> THEN "NessunCliente" ELSE "Elenco"
    /\ risultati' = <<>>
    /\ UNCHANGED <<clienti, fileClienti, fileInterazioni, pc>>

\* CRM::modificaCliente (menu 3)
ModificaCliente(codiceFiscale, m) ==
    /\ SceltaMenu
    /\ LET indice == controllaEsistenzaCliente(clienti, codiceFiscale) IN
       IF clienti = <<>>
       THEN /\ esito' = "NessunCliente"
            /\ clienti' = clienti
       ELSE IF indice = -1
       THEN /\ esito' = "NonTrovato"
            /\ clienti' = clienti
       ELSE /\ esito' = "Modificato"
            /\ clienti' = [clienti EXCEPT ![indice + 1] =
                 [@ EXCEPT !.nome = nuovoValore(@, m.nome),
                           !.cognome = nuovoValore(@, m.cognome),
                           !.email = nuovoValore(@, m.email),
                           !.telefono = nuovoValore(@, m.telefono),
                           !.indirizzo = nuovoValore(@, m.indirizzo),
                           !.dataNascita = nuovoValore(@, m.dataNascita)]]
    /\ risultati' = <<>>
    /\ UNCHANGED <<fileClienti, fileInterazioni, pc>>

\* CRM::eliminaCliente (menu 4)
EliminaCliente(codiceFiscale, conferma) ==
    /\ SceltaMenu
    /\ LET indice == controllaEsistenzaCliente(clienti, codiceFiscale) IN
       IF clienti = <<>>
       THEN /\ esito' = "NessunCliente"
            /\ clienti' = clienti
       ELSE IF indice = -1
       THEN /\ esito' = "NonTrovato"
            /\ clienti' = clienti
       ELSE IF confermato(conferma)
       THEN /\ esito' = "Eliminato"
            /\ clienti' = erase(clienti, indice)
       ELSE /\ esito' = "Annullato"
            /\ clienti' = clienti
    /\ risultati' = <<>>
    /\ UNCHANGED <<fileClienti, fileInterazioni, pc>>

\* CRM::cercaCliente (menu 5)
CercaCliente(ricerca) ==
    /\ SceltaMenu
    /\ IF clienti = <<>>
       THEN /\ risultati' = <<>>
            /\ esito' = "NessunCliente"
            /\ clienti' = clienti
       ELSE /\ risultati' = cercaClienteDa(clienti, ricerca, 0)
            /\ esito' = IF risultati' # <<>> THEN "ClientiTrovati" ELSE "NessunRisultato"
            /\ clienti' = [k \in 1..Len(clienti) |->
                              ClienteDopoContieneStringa(clienti[k], ricerca)]
    /\ UNCHANGED <<fileClienti, fileInterazioni, pc>>

\* main, case 6: enter the interaction menu
GestisciInterazioni ==
    /\ SceltaMenu
    /\ pc' = "interazioni"
    /\ esito' = "MenuInterazioni"
    /\ risultati' = <<>>
    /\ UNCHANGED <<clienti, fileClienti, fileInterazioni>>

\* CRM::aggiungiInterazione (interaction menu 1)
AggiungiInterazione(codiceFiscale, x) ==
    /\ SceltaInterazioni
    /\ LET indice == controllaEsistenzaCliente(clienti, codiceFiscale) IN
       IF clienti = <<>>
       THEN /\ esito' = "NessunCliente"
            /\ clienti' = clienti
       ELSE IF indice = -1
       THEN /\ esito' = "NonTrovato"
            /\ clienti' = clienti
       ELSE IF ~validaData(x.data)
       THEN /\ esito' = "DataNonValida"
            /\ clienti' = clienti
       ELSE IF ~validaOra(x.ora)
       THEN /\ esito' = "OraNonValida"
            /\ clienti' = clienti
       ELSE /\ Len(clienti[indice + 1].interazioni) < MaxInterazioni
            /\ esito' = "InterazioneAggiunta"
            /\ clienti' = [clienti EXCEPT ![indice + 1] =
                 aggiungiInterazione(@, Interazione(x.data, x.ora, x.tipo,
                                         x.descrizione, x.agente, x.risultato))]
    /\ risultati' = <<>>
    /\ UNCHANGED <<fileClienti, fileInterazioni, pc>>

\* CRM::visualizzaInterazioniCliente and Cliente::visualizzaInterazioni (interaction menu 2)
VisualizzaInterazioniCliente(codiceFiscale) ==
    /\ SceltaInterazioni
    /\ LET indice == controllaEsistenzaCliente(clienti, codiceFiscale) IN
       esito' = IF clienti = <<>> THEN "NessunCliente"
                ELSE IF indice = -1 THEN "NonTrovato"
                ELSE IF clienti[indice + 1].interazioni = <<>> THEN "NessunaInterazione"
                ELSE "ElencoInterazioni"
    /\ risultati' = <<>>
    /\ UNCHANGED <<clienti, fileClienti, fileInterazioni, pc>>

\* CRM::cercaInterazioni (interaction menu 3)
CercaInterazioni(ricerca) ==
    /\ SceltaInterazioni
    /\ IF clienti = <<>>
       THEN /\ risultati' = <<>>
            /\ esito' = "NessunCliente"
       ELSE /\ risultati' = cercaInterazioniDa(clienti, ricerca, 0)
            /\ esito' = IF risultati' # <<>> THEN "InterazioniTrovate"
                        ELSE "NessunRisultato"
    /\ UNCHANGED <<clienti, fileClienti, fileInterazioni, pc>>

\* main, interaction menu 0: back to the main menu
TornaAlMenu ==
    /\ SceltaInterazioni
    /\ pc' = "menu"
    /\ esito' = "MenuPrincipale"
    /\ risultati' = <<>>
    /\ UNCHANGED <<clienti, fileClienti, fileInterazioni>>

\* CRM::salvaDati: both streams are opened (and truncated) before the test
Salva(apreClienti, apreInterazioni) ==
    /\ fileClienti' = dopoSalva(fileClienti, apreClienti,
                                apreClienti /\ apreInterazioni,
                                scriviClienti(clienti, 0))
    /\ fileInterazioni' = dopoSalva(fileInterazioni, apreInterazioni,
                                    apreClienti /\ apreInterazioni,
                                    scriviInterazioni(clienti, 0))

\* main, case 7
SalvaDati(apreClienti, apreInterazioni) ==
    /\ SceltaMenu
    /\ esito' = IF apreClienti /\ apreInterazioni THEN "Salvato" ELSE "ErroreSalvataggio"
    /\ Salva(apreClienti, apreInterazioni)
    /\ risultati' = <<>>
    /\ UNCHANGED <<clienti, pc>>

\* main, case 8
CaricaDati(apreClienti, apreInterazioni) ==
    /\ SceltaMenu
    /\ esito' = IF apreClienti /\ apreInterazioni THEN "Caricato" ELSE "ErroreCaricamento"
    /\ clienti' = dopoCarica(clienti, apreClienti /\ apreInterazioni,
                             fileClienti, fileInterazioni)
    /\ risultati' = <<>>
    /\ UNCHANGED <<fileClienti, fileInterazioni, pc>>

\* main, default: a number that is no entry of the menu shown
SceltaNonValida ==
    /\ SceltaMenu \/ SceltaInterazioni
    /\ esito' = "SceltaNonValida"
    /\ risultati' = <<>>
    /\ UNCHANGED <<clienti, fileClienti, fileInterazioni, pc>>

\* the values of an int
Interi == (-2147483647 - 1)..2147483647

\* what a failed cin >> scelta leaves in scelta: 0 when the text typed is no
\* number, the largest or the smallest int when the number typed does not fit,
\* and, when the input has ended, the value it had: -1 before the first
\* choice, afterwards whatever number was typed last. Together, any int.
LettureFallite == Interi

\* the failed reads tried: no number, a number too large, one too small, end
\* of input at the first menu, after an entry of a menu and after numbers that
\* are no entry
LettureProvate == {0, 2147483647, -2147483647 - 1, -1, 6, 2, 10, -5, 42}

\* main, if (!(cin >> scelta)): the message, then continue, which tests the
\* loop condition on the value the failed read left: with 0 the loop of the
\* menu shown ends, and for the main menu that is the end of main
InputNonValido(scritto) ==
    /\ SceltaMenu \/ SceltaInterazioni
    /\ esito' = "InputNonValido"
    /\ pc' = IF scritto # 0 THEN pc
             ELSE IF pc = "menu" THEN "fine"
             ELSE "menu"
    /\ risultati' = <<>>
    /\ UNCHANGED <<clienti, fileClienti, fileInterazioni>>

\* main, case 0: save without looking at the result, then leave the loop
Esci(apreClienti, apreInterazioni) ==
    /\ pc = "menu"
    /\ Salva(apreClienti, apreInterazioni)
    /\ pc' = "fine"
    /\ esito' = "Uscita"
    /\ risultati' = <<>>
    /\ UNCHANGED <<clienti, passi>>

Next ==
    \/ \E a \in Aperture, b \in Aperture : Avvio(a, b)
    \/ \E c \in ClientiInput : AggiungiCliente(c)
    \/ VisualizzaClienti
    \/ \E cf \in CodiciInput, m \in ModificheInput : ModificaCliente(cf, m)
    \/ \E cf \in CodiciInput, s \in ConfermeInput : EliminaCliente(cf, s)
    \/ \E t \in TerminiClienti : CercaCliente(t)
    \/ GestisciInterazioni
    \/ \E cf \in CodiciInput, x \in InterazioniInput : AggiungiInterazione(cf, x)
    \/ \E cf \in CodiciInput : VisualizzaInterazioniCliente(cf)
    \/ \E t \in TerminiInterazioni : CercaInterazioni(t)
    \/ TornaAlMenu
    \/ \E a \in Aperture, b \in Aperture : SalvaDati(a, b)
    \/ \E a \in Aperture, b \in Aperture : CaricaDati(a, b)
    \/ SceltaNonValida
    \/ \E scritto \in LettureProvate : InputNonValido(scritto)
    \/ \E a \in Aperture, b \in Aperture : Esci(a, b)

Spec == Init /\ [][Next]_vars

-----------------------------------------------------------------------------
(* A Cliente object on its own: constructed, then its setters and its two   *)
(* methods on the interaction vector called directly, with any value: a     *)
(* setter checks nothing. Cliente::rimuoviInterazione has no                *)
(* caller in the program: CRM::eliminaInterazione is declared in crm.h and  *)
(* has no body, and no menu entry removes an interaction. The object is     *)
(* held as the only element of clienti; a method of Cliente prints nothing. *)

\* interactions handed to Cliente::aggiungiInterazione
InterazioniCliente ==
    InterazioniInput \cup
    { Interazione(sData, sOra, "TELEFONATA", Vuota, sLuigi, Vuota),
      Interazione(sGiugno, sOra, "ALTRO", sVisita, Vuota, sFatto) }

\* indices handed to Cliente::rimuoviInterazione: one before the first, every
\* place of a full vector, one past it
PosizioniInput == -1..MaxInterazioni

InitCliente ==
    /\ clienti = <<Cliente(sMario, sRossi, sEmail, sTelefono, sRoma, sRSS, sNascita)>>
    /\ fileClienti = <<>>
    /\ fileInterazioni = <<>>
    /\ pc = "oggetto"
    /\ esito = "Costruito"
    /\ risultati = <<>>
    /\ passi = 0

\* a call of a method of the object
ChiamataCliente ==
    /\ pc = "oggetto"
    /\ passi < MaxPassi
    /\ passi' = passi + 1

\* c.aggiungiInterazione(x)
ClienteAggiungiInterazione(x) ==
    /\ ChiamataCliente
    /\ Len(clienti[1].interazioni) < MaxInterazioni
    /\ esito' = "NessunMessaggio"
    /\ clienti' = [clienti EXCEPT ![1] = aggiungiInterazione(@, x)]
    /\ UNCHANGED <<fileClienti, fileInterazioni, pc, risultati>>

\* c.rimuoviInterazione(indice): void, and silent whatever the index
ClienteRimuoviInterazione(indice) ==
    /\ ChiamataCliente
    /\ esito' = "NessunMessaggio"
    /\ clienti' = [clienti EXCEPT ![1] = rimuoviInterazione(@, indice)]
    /\ UNCHANGED <<fileClienti, fileInterazioni, pc, risultati>>

\* strings handed to a setter of Cliente: the empty one, and one that no field
\* of the object holds
ValoriCampo == {Vuota, sVRD}

\* a setter of Cliente: one field assigned, nothing checked, nothing printed
ChiamataSetter ==
    /\ ChiamataCliente
    /\ esito' = "NessunMessaggio"
    /\ UNCHANGED <<fileClienti, fileInterazioni, pc, risultati>>

\* c.setNome(n)
ClienteSetNome(n) ==
    /\ ChiamataSetter
    /\ clienti' = [clienti EXCEPT ![1].nome = n]

\* c.setCognome(c)
ClienteSetCognome(c) ==
    /\ ChiamataSetter
    /\ clienti' = [clienti EXCEPT ![1].cognome = c]

\* c.setEmail(e)
ClienteSetEmail(e) ==
    /\ ChiamataSetter
    /\ clienti' = [clienti EXCEPT ![1].email = e]

\* c.setTelefono(t)
ClienteSetTelefono(t) ==
    /\ ChiamataSetter
    /\ clienti' = [clienti EXCEPT ![1].telefono = t]

\* c.setIndirizzo(i)
ClienteSetIndirizzo(i) ==
    /\ ChiamataSetter
    /\ clienti' = [clienti EXCEPT ![1].indirizzo = i]

\* c.setCodiceFiscale(cf)
ClienteSetCodiceFiscale(cf) ==
    /\ ChiamataSetter
    /\ clienti' = [clienti EXCEPT ![1].codiceFiscale = cf]

\* c.setDataNascita(dn)
ClienteSetDataNascita(dn) ==
    /\ ChiamataSetter
    /\ clienti' = [clienti EXCEPT ![1].dataNascita = dn]

NextCliente ==
    \/ \E x \in InterazioniCliente : ClienteAggiungiInterazione(x)
    \/ \E indice \in PosizioniInput : ClienteRimuoviInterazione(indice)
    \/ \E n \in ValoriCampo : ClienteSetNome(n)
    \/ \E c \in ValoriCampo : ClienteSetCognome(c)
    \/ \E e \in ValoriCampo : ClienteSetEmail(e)
    \/ \E t \in ValoriCampo : ClienteSetTelefono(t)
    \/ \E i \in ValoriCampo : ClienteSetIndirizzo(i)
    \/ \E cf \in ValoriCampo : ClienteSetCodiceFiscale(cf)
    \/ \E dn \in ValoriCampo : ClienteSetDataNascita(dn)

SpecCliente == InitCliente /\ [][NextCliente]_vars

-----------------------------------------------------------------------------
(* The data files alone: any two files of a few lines, read at startup and *)
(* written back when the user leaves at once                               *)

RigheClientiDisco == {rMario, rAnna, rLuca, rCinque, rOtto, Vuota}
RigheInterazioniDisco == {xMario, xMarioDue, xLuca, xOrfana, xSei, Vuota}

\* every file of at most MaxRighe lines taken from a set of lines
FileDi(righe) == UNION { [1..n -> righe] : n \in 0..MaxRighe }

InitFile ==
    /\ clienti = <<>>
    /\ fileClienti \in FileDi(RigheClientiDisco)
    /\ fileInterazioni \in FileDi(RigheInterazioniDisco)
    /\ pc = "avvio"
    /\ esito = "Benvenuto"
    /\ risultati = <<>>
    /\ passi = 0

NextFile ==
    \/ \E a \in Aperture, b \in Aperture : Avvio(a, b)
    \/ \E a \in Aperture, b \in Aperture : Esci(a, b)

SpecFile == InitFile /\ [][NextFile]_vars

-----------------------------------------------------------------------------
(* The kind column: one customer on disk and interaction lines of every     *)
(* kind for it, loaded, saved and loaded again                              *)

sContratto == <<"C","o","n","t","r","a","t","t","o">>
sPostaEl == <<"E","m","a","i","l">>
sAltro == <<"A","l","t","r","o">>
sSconosciuto == <<"S","c","o","n","o","s","c","i","u","t","o">>

xContratto == Unisci(<<sRSS, sData, sOra, sContratto, sVisita, sLuigi, sFatto>>)
xPostaEl == Unisci(<<sRSS, sData, sOra, sPostaEl, Vuota, sLuigi, sFatto>>)
xAltro == Unisci(<<sRSS, sData, sOra, sAltro, Vuota, Vuota, sFatto>>)
xMinuscolo == Unisci(<<sRSS, sData, sOra, sMinuscolo, sVisita, Vuota, Vuota>>)
xSenzaTipo == Unisci(<<sRSS, sData, sOra, Vuota, sVisita, sLuigi, Vuota>>)
xSconosciuto == Unisci(<<sRSS, sData, sOra, sSconosciuto, Vuota, sLuigi, Vuota>>)

RigheTipoDisco ==
    {xMario, xMarioDue, xContratto, xPostaEl, xAltro, xMinuscolo, xSenzaTipo, xSconosciuto}

InitTipo ==
    /\ clienti = <<>>
    /\ fileClienti = <<rMario>>
    /\ fileInterazioni \in FileDi(RigheTipoDisco)
    /\ pc = "avvio"
    /\ esito = "Benvenuto"
    /\ risultati = <<>>
    /\ passi = 0

NextTipo ==
    \/ \E a \in Aperture, b \in Aperture : Avvio(a, b)
    \/ \E a \in Aperture, b \in Aperture : SalvaDati(a, b)
    \/ \E a \in Aperture, b \in Aperture : CaricaDati(a, b)
    \/ \E a \in Aperture, b \in Aperture : Esci(a, b)

SpecTipo == InitTipo /\ [][NextTipo]_vars

-----------------------------------------------------------------------------
(* What the file format and the store promise, said without the loops above *)

\* the positions of the separators of a line
Barre(linea) == {p \in 1..Len(linea) : linea[p] = "|"}

\* a line that is not blank and holds exactly seven fields
BenFormata(linea) == linea # <<>> /\ Cardinality(Barre(linea)) = 6

\* the position of the n-th separator; 0 before the first field, Len + 1 after the last
Confine(linea, n) ==
    IF n = 0 THEN 0
    ELSE IF n > Cardinality(Barre(linea)) THEN Len(linea) + 1
    ELSE CHOOSE p \in Barre(linea) : Cardinality({q \in Barre(linea) : q <= p}) = n

\* the n-th field of a line, n = 1, 2, ...
Campo(linea, n) == SubSeq(linea, Confine(linea, n - 1) + 1, Confine(linea, n) - 1)

\* the well-formed lines of a file, in file order
RigheBuone(file) == LET Buona(l) == BenFormata(l) IN SelectSeq(file, Buona)

\* the customer a well-formed customer line stands for
ClienteDi(linea) ==
    [nome |-> Campo(linea, 1), cognome |-> Campo(linea, 2), email |-> Campo(linea, 3),
     telefono |-> Campo(linea, 4), indirizzo |-> Campo(linea, 5),
     codiceFiscale |-> Campo(linea, 6), dataNascita |-> Campo(linea, 7),
     interazioni |-> <<>>]

\* the kind a display string stands for
TipoDi(s) ==
    CASE s = sAppuntamento -> "APPUNTAMENTO"
      [] s = <<"C","o","n","t","r","a","t","t","o">> -> "CONTRATTO"
      [] s = sTelefonata -> "TELEFONATA"
      [] s = <<"E","m","a","i","l">> -> "EMAIL"
      [] OTHER -> "ALTRO"

\* the interaction a well-formed interaction line stands for
InterazioneDi(linea) ==
    [data |-> Campo(linea, 2), ora |-> Campo(linea, 3), tipo |-> TipoDi(Campo(linea, 4)),
     descrizione |-> Campo(linea, 5), agente |-> Campo(linea, 6),
     risultato |-> Campo(linea, 7)]

\* a customer's seven fields, without the interactions
SoloCampi(c) == [c EXCEPT !.interazioni = <<>>]

\* the keys present in a store
Chiavi(cl) == {cl[k].codiceFiscale : k \in 1..Len(cl)}

\* no two customers of a store share a key
ChiaviUniche(cl) ==
    \A i \in 1..Len(cl), j \in 1..Len(cl) :
        i # j => cl[i].codiceFiscale # cl[j].codiceFiscale

\* customer k is the first of the store with its key
PrimoConChiave(cl, k) == \A h \in 1..(k - 1) : cl[h].codiceFiscale # cl[k].codiceFiscale

\* the (customer, position) pairs of all interactions of a store
Possedute(cl) ==
    UNION { {<<k, j>> : j \in 1..Len(cl[k].interazioni)} : k \in 1..Len(cl) }

\* the interactions the well-formed lines of a file give to a key, in file order
InterazioniPer(file, chiave) ==
    LET Sua(l) == BenFormata(l) /\ Campo(l, 1) = chiave
        righe == SelectSeq(file, Sua)
    IN [n \in 1..Len(righe) |-> InterazioneDi(righe[n])]

\* the store two files stand for
Atteso(fc, fx) ==
    LET buone == RigheBuone(fc)
        senza == [k \in 1..Len(buone) |-> ClienteDi(buone[k])]
    IN [k \in 1..Len(buone) |->
           [senza[k] EXCEPT !.interazioni =
               IF PrimoConChiave(senza, k)
               THEN InterazioniPer(fx, senza[k].codiceFiscale)
               ELSE <<>>]]

\* a load whose two files could be opened
CaricamentoRiuscito ==
    \/ Avvio(TRUE, TRUE)
    \/ CaricaDati(TRUE, TRUE)

-----------------------------------------------------------------------------
(* Claims *)

\* C1: round trip. In a store whose keys are unique, a successful save
\* followed at once by a successful load of the same two files leaves the
\* collection as it was: same customers, same order, same fields, same
\* interactions under each.
C1_AndataRitorno ==
    [][(esito = "Salvato" /\ ChiaviUniche(clienti) /\ CaricaDati(TRUE, TRUE))
         => clienti' = clienti]_vars

\* C2: key uniqueness. In every reachable state no two customers in memory
\* have the same codiceFiscale.
C2_ChiaviUniche == ChiaviUniche(clienti)

\* C3: add changes the store iff the key is new. On a collision the message is
\* the duplicate-key one and the collection is untouched; otherwise the new
\* customer, with no interactions, is appended and the others keep place and
\* contents.
C3_Aggiunta ==
    [][\A c \in ClientiInput :
         AggiungiCliente(c) =>
           IF c.codiceFiscale \in Chiavi(clienti)
           THEN esito' = "GiaPresente" /\ clienti' = clienti
           ELSE /\ esito' = "Aggiunto"
                /\ Len(clienti') = Len(clienti) + 1
                /\ \A k \in 1..Len(clienti) : clienti'[k] = clienti[k]
                /\ SoloCampi(clienti'[Len(clienti')]) = SoloCampi(c)
                /\ clienti'[Len(clienti')].interazioni = <<>>]_vars

\* C3 happens: an add was refused because the key was taken.
C3_Testimone ==
    /\ esito = "GiaPresente"
    /\ clienti # <<>>

\* C4: referential integrity after a load. Every interaction in memory comes
\* from a well-formed interaction line whose first field is its owner's key,
\* and the interactions in memory are as many as the well-formed lines whose
\* key is the key of some loaded customer: orphan lines add nothing and a
\* matching line is attached once, never twice.
C4_Integrita ==
    esito = "Caricato" =>
      LET corrispondenti ==
            {n \in 1..Len(fileInterazioni) :
                /\ BenFormata(fileInterazioni[n])
                /\ Campo(fileInterazioni[n], 1) \in Chiavi(clienti)}
      IN /\ \A kj \in Possedute(clienti) :
              \E n \in corrispondenti :
                 /\ Campo(fileInterazioni[n], 1) = clienti[kj[1]].codiceFiscale
                 /\ InterazioneDi(fileInterazioni[n]) = clienti[kj[1]].interazioni[kj[2]]
         /\ Cardinality(Possedute(clienti)) = Cardinality(corrispondenti)

\* C4 happens: two loaded customers share a key, one line matches it and one
\* line is an orphan; the match sits under the first customer only.
C4_Testimone ==
    /\ esito = "Caricato"
    /\ fileClienti = <<rMario, rAnna>>
    /\ fileInterazioni = <<xOrfana, xMario>>
    /\ Len(clienti) = 2
    /\ Len(clienti[1].interazioni) = 1
    /\ clienti[2].interazioni = <<>>

\* C5: malformed tolerance. A load whose two files open succeeds whatever the
\* lines hold; blank lines and lines that do not split into exactly seven
\* fields are skipped, and the well-formed customer lines become the
\* customers, in file order.
C5_Tolleranza ==
    [][CaricamentoRiuscito =>
         /\ esito' = "Caricato"
         /\ Len(clienti') = Len(RigheBuone(fileClienti))
         /\ \A k \in 1..Len(clienti') :
               SoloCampi(clienti'[k]) = ClienteDi(RigheBuone(fileClienti)[k])]_vars

\* C5 happens: a five-field line and a well-formed line gave one customer.
C5_Testimone ==
    /\ esito = "Caricato"
    /\ fileClienti = <<rCinque, rMario>>
    /\ Len(clienti) = 1
    /\ clienti[1].nome = sMario

\* the spec's NotFound: the two messages a lookup that fails can print
NotFound == {"NessunCliente", "NonTrovato"}

\* a store without its k-th customer
Senza(cl, k) == [h \in 1..(Len(cl) - 1) |-> IF h < k THEN cl[h] ELSE cl[h + 1]]

\* the first customer of a store with a key that is present
PrimoCon(cl, chiave) ==
    CHOOSE k \in 1..Len(cl) : cl[k].codiceFiscale = chiave /\ PrimoConChiave(cl, k)

\* C6: removal cascade. With the key absent, remove fails with NotFound and
\* the store is unchanged. A remove that succeeds deletes exactly one customer
\* with that key and leaves the others, their order and their interactions as
\* they were; afterwards a lookup of the key finds nothing and whatever a
\* search of the interactions reports belongs to a customer that is still there.
C6_Cascata ==
    [][\A cf \in CodiciInput, s \in ConfermeInput :
         EliminaCliente(cf, s) =>
           IF cf \notin Chiavi(clienti)
           THEN esito' \in NotFound /\ clienti' = clienti
           ELSE IF esito' = "Eliminato"
           THEN /\ \E k \in 1..Len(clienti) :
                     /\ clienti[k].codiceFiscale = cf
                     /\ clienti' = Senza(clienti, k)
                /\ trovaCliente(clienti', cf) = -1
                /\ \A t \in TerminiInterazioni :
                     LET r == cercaInterazioniDa(clienti', t, 0) IN
                     \A n \in 1..Len(r) :
                        /\ r[n].i + 1 \in 1..Len(clienti')
                        /\ r[n].j + 1 \in 1..Len(clienti'[r[n].i + 1].interazioni)
                        /\ r[n].interazione = clienti'[r[n].i + 1].interazioni[r[n].j + 1]
           ELSE clienti' = clienti]_vars

\* C7: a load replaces. After a load whose files opened, the collection is
\* the customers of the well-formed customer lines, in file order, each with
\* the interactions of the interaction file attached to it; nothing that was
\* in memory before is kept.
C7_Sostituzione ==
    [][CaricamentoRiuscito => clienti' = Atteso(fileClienti, fileInterazioni)]_vars

\* C7 happens: a customer was typed in, saved and loaded back; its name held
\* a separator, so its line is no customer line and the load left memory empty.
C7_Testimone ==
    /\ esito = "Caricato"
    /\ passi = 3
    /\ fileClienti = <<Unisci(<<sConBarra, sRossi, Vuota, Vuota, Vuota, sVRD, Vuota>>)>>
    /\ clienti = <<>>

CampiModificabili == {"nome", "cognome", "email", "telefono", "indirizzo", "dataNascita"}

\* C8: update. With the key absent, update fails with NotFound and the store
\* is unchanged. Otherwise, in the first customer with that key, each of the
\* six fields takes the typed value if it is not empty and keeps its old one
\* if it is, so no field goes from non-empty to empty; the key, the
\* interactions, the position and all other customers stay as they were.
C8_Modifica ==
    [][\A cf \in CodiciInput, m \in ModificheInput :
         ModificaCliente(cf, m) =>
           IF cf \notin Chiavi(clienti)
           THEN esito' \in NotFound /\ clienti' = clienti
           ELSE LET k == PrimoCon(clienti, cf) IN
                /\ esito' = "Modificato"
                /\ Len(clienti') = Len(clienti)
                /\ \A h \in 1..Len(clienti) : h # k => clienti'[h] = clienti[h]
                /\ \A f \in CampiModificabili :
                     /\ clienti'[k][f] = IF m[f] # <<>> THEN m[f] ELSE clienti[k][f]
                     /\ clienti[k][f] # <<>> => clienti'[k][f] # <<>>
                /\ clienti'[k].codiceFiscale = cf
                /\ clienti'[k].interazioni = clienti[k].interazioni]_vars

\* C8 happens: Mario Rossi was updated with a new name and address and empty
\* answers for the rest, which he kept.
C8_Testimone ==
    /\ esito = "Modificato"
    /\ \E k \in 1..Len(clienti) :
         /\ clienti[k].codiceFiscale = sRSS
         /\ clienti[k].nome = sLuca
         /\ clienti[k].indirizzo = sPisa
         /\ clienti[k].cognome = sRossi
         /\ clienti[k].dataNascita = sNascita

\* the messages that end a search; every search step ends with one of them, and
\* testing that first spares running the search on the steps that are none
EsitiRicerca == {"ClientiTrovati", "InterazioniTrovate", "NessunRisultato", "NessunCliente"}

\* two characters that are equal or the two cases of one letter
CoppieDiCasi ==
    {<<Maiuscole[k], Minuscole[k]>> : k \in 1..26} \cup
    {<<Minuscole[k], Maiuscole[k]>> : k \in 1..26}

StessaLettera(a, b) == a = b \/ <<a, b>> \in CoppieDiCasi

\* termine occurs in campo, letter case ignored
ContieneSenzaCaso(campo, termine) ==
    \E p \in 0..(Len(campo) - Len(termine)) :
       \A q \in 1..Len(termine) : StessaLettera(campo[p + q], termine[q])

\* termine occurs in campo as written
ContieneEsatto(campo, termine) ==
    \E p \in 0..(Len(campo) - Len(termine)) :
       \A q \in 1..Len(termine) : campo[p + q] = termine[q]

\* the spec's matches(term) for a customer
ClienteCorrisponde(c, t) ==
    \/ ContieneSenzaCaso(c.nome, t)
    \/ ContieneSenzaCaso(c.cognome, t)
    \/ ContieneSenzaCaso(c.email, t)
    \/ ContieneSenzaCaso(c.telefono, t)
    \/ ContieneEsatto(c.codiceFiscale, t)

\* C9: searchCustomers reports, in store order and with their positions,
\* exactly the customers that match: term in nome, cognome, email or telefono
\* with letter case ignored, or in codiceFiscale as written; indirizzo and
\* dataNascita do not count.
C9_RicercaClienti ==
    [][\A t \in TerminiClienti :
         (esito' \in EsitiRicerca /\ CercaCliente(t)) =>
           LET Giusto(k) == ClienteCorrisponde(clienti[k], t)
               posti == SelectSeq([k \in 1..Len(clienti) |-> k], Giusto)
           IN risultati' =
                [n \in 1..Len(posti) |-> [i |-> posti[n] - 1, cliente |-> clienti[posti[n]]]]]_vars

\* C9 happens: of two customers the search reported the second one only.
C9_Testimone ==
    /\ esito = "ClientiTrovati"
    /\ Len(clienti) = 2
    /\ Len(risultati) = 1
    /\ risultati[1].i = 1

\* the display string of a kind
NomeTipo(tipo) ==
    CASE tipo = "APPUNTAMENTO" -> sAppuntamento
      [] tipo = "CONTRATTO" -> <<"C","o","n","t","r","a","t","t","o">>
      [] tipo = "TELEFONATA" -> sTelefonata
      [] tipo = "EMAIL" -> <<"E","m","a","i","l">>
      [] tipo = "ALTRO" -> <<"A","l","t","r","o">>

\* the spec's matches(term) for an interaction
InterazioneCorrisponde(x, t) ==
    \/ ContieneSenzaCaso(x.descrizione, t)
    \/ ContieneSenzaCaso(x.agente, t)
    \/ ContieneSenzaCaso(x.risultato, t)
    \/ ContieneSenzaCaso(NomeTipo(x.tipo), t)
    \/ ContieneEsatto(x.data, t)
    \/ ContieneEsatto(x.ora, t)

\* C10: searchInteractions reports exactly the interactions that match (term
\* in descrizione, agente, risultato or the kind's display string with letter
\* case ignored, or in data or ora as written), ordered by the owner's
\* position and then by the position in the owner's list, each with its owner
\* and its position in that list.
C10_RicercaInterazioni ==
    [][\A t \in TerminiInterazioni :
         (esito' \in EsitiRicerca /\ CercaInterazioni(t)) =>
           LET giuste == {kj \in Possedute(clienti) :
                            InterazioneCorrisponde(clienti[kj[1]].interazioni[kj[2]], t)}
               r == risultati'
           IN /\ Len(r) = Cardinality(giuste)
              /\ \A n \in 1..Len(r) :
                   /\ <<r[n].i + 1, r[n].j + 1>> \in giuste
                   /\ r[n].interazione = clienti[r[n].i + 1].interazioni[r[n].j + 1]
                   /\ r[n].nomeCompleto =
                        clienti[r[n].i + 1].nome \o <<" ">> \o clienti[r[n].i + 1].cognome
              /\ \A n \in 1..Len(r), m \in 1..Len(r) :
                   n < m => \/ r[n].i < r[m].i
                            \/ r[n].i = r[m].i /\ r[n].j < r[m].j]_vars

\* C10 happens: the first customer's first interaction and the second
\* customer's first were reported, the first customer's second was not.
C10_Testimone ==
    /\ esito = "InterazioniTrovate"
    /\ Len(risultati) = 2
    /\ risultati[1].i = 0 /\ risultati[1].j = 0
    /\ risultati[2].i = 1 /\ risultati[2].j = 0
    /\ Len(clienti[1].interazioni) = 2

-----------------------------------------------------------------------------
(* Persistence, second part *)

\* a save whose two files could be opened
SalvataggioRiuscito ==
    \/ SalvaDati(TRUE, TRUE)
    \/ Esci(TRUE, TRUE)

\* the pairs (customer, position) that come no later than kj, customers first
FinoA(cl, kj) ==
    {p \in Possedute(cl) : p[1] < kj[1] \/ (p[1] = kj[1] /\ p[2] <= kj[2])}

\* C11: after a successful save the customer file is one line per customer,
\* in store order, the seven fields nome, cognome, email, telefono, indirizzo,
\* codiceFiscale, dataNascita joined by the separator; the interaction file is
\* one line per interaction, customer after customer in store order and in
\* each customer's own order, the owner's key first and then data, ora, the
\* kind's display string, descrizione, agente, risultato. Nothing of the old
\* contents is left.
C11_FormatoFile ==
    [][SalvataggioRiuscito =>
         /\ Len(fileClienti') = Len(clienti)
         /\ \A k \in 1..Len(clienti) :
               fileClienti'[k] =
                 Unisci(<<clienti[k].nome, clienti[k].cognome, clienti[k].email,
                          clienti[k].telefono, clienti[k].indirizzo,
                          clienti[k].codiceFiscale, clienti[k].dataNascita>>)
         /\ Len(fileInterazioni') = Cardinality(Possedute(clienti))
         /\ \A kj \in Possedute(clienti) :
               LET x == clienti[kj[1]].interazioni[kj[2]] IN
               fileInterazioni'[Cardinality(FinoA(clienti, kj))] =
                 Unisci(<<clienti[kj[1]].codiceFiscale, x.data, x.ora, NomeTipo(x.tipo),
                          x.descrizione, x.agente, x.risultato>>)]_vars

\* C11 happens: two customers with two and one interactions were saved over
\* files that held a blank line, a six-field line and the interactions in
\* another order.
C11_Testimone ==
    /\ esito = "Salvato"
    /\ fileClienti = <<rMario, rLuca>>
    /\ Len(fileInterazioni) = 3
    /\ fileInterazioni[1] = xMario
    /\ fileInterazioni[2] = xMarioDue
    /\ Campo(fileInterazioni[3], 1) = sVRD

\* C12: save fails exactly when at least one of the two files cannot be opened
\* for writing. The failure is a message and nothing more: no customer or
\* interaction line reaches either file (a file is left as it was or empty),
\* the save is not tried again, memory is untouched and the menu goes on.
C12_ErroreSalvataggio ==
    [][\A a \in Aperture, b \in Aperture :
         SalvaDati(a, b) =>
           /\ esito' \in {"Salvato", "ErroreSalvataggio"}
           /\ (esito' = "ErroreSalvataggio") <=> (~a \/ ~b)
           /\ (~a \/ ~b) =>
                 /\ fileClienti' \in {fileClienti, <<>>}
                 /\ fileInterazioni' \in {fileInterazioni, <<>>}
                 /\ clienti' = clienti
                 /\ passi' = passi + 1
                 /\ pc' = "menu"]_vars

\* C12 happens: with customers in memory the customer file opened and the
\* interaction file did not; the save failed, the first is empty and the second
\* still holds its old lines.
C12_Testimone ==
    /\ esito = "ErroreSalvataggio"
    /\ pc = "menu"
    /\ clienti # <<>>
    /\ fileClienti = <<>>
    /\ fileInterazioni = <<xMario, xOrfana>>

\* the five kinds with the string each is shown and written as
TabellaTipi == {<<NomeTipo(t), t>> : t \in TipoInterazione}

\* the kind a string of the kind column stands for: the table, read as
\* written, and Other for whatever is not in it
TipoDaTabella(s) ==
    IF \E p \in TabellaTipi : p[1] = s
    THEN (CHOOSE p \in TabellaTipi : p[1] = s)[2]
    ELSE "ALTRO"

\* the well-formed lines of a file that carry a key, in file order
RighePer(file, chiave) ==
    LET Sua(l) == BenFormata(l) /\ Campo(l, 1) = chiave IN SelectSeq(file, Sua)

\* C13: kind codec. A load takes every well-formed interaction line of a
\* loaded customer whatever its kind column holds: one of the five display
\* strings, spelled exactly, gives its kind and any other string gives Other.
\* And a kind written by a save is read back by the next load as the same kind.
C13_CodificaTipo ==
    [][/\ (esito' = "Caricato" /\ CaricamentoRiuscito) =>
            \A k \in 1..Len(clienti') :
               PrimoConChiave(clienti', k) =>
                 \A righe \in {RighePer(fileInterazioni, clienti'[k].codiceFiscale)} :
                 /\ Len(clienti'[k].interazioni) = Len(righe)
                 /\ \A n \in 1..Len(righe) :
                       \A s \in {Campo(righe[n], 4)} :
                          clienti'[k].interazioni[n].tipo = TipoDaTabella(s)
       /\ (esito = "Salvato" /\ esito' = "Caricato" /\ CaricaDati(TRUE, TRUE)) =>
            /\ Len(clienti') = Len(clienti)
            /\ \A k \in 1..Len(clienti) :
                  /\ Len(clienti'[k].interazioni) = Len(clienti[k].interazioni)
                  /\ \A n \in 1..Len(clienti[k].interazioni) :
                        clienti'[k].interazioni[n].tipo = clienti[k].interazioni[n].tipo]_vars

\* C13 happens: a Contratto line and an "email" line were loaded as Contract
\* and Other, saved as Contratto and Altro, and loaded again as the same two.
C13_Testimone ==
    /\ esito = "Caricato"
    /\ passi = 2
    /\ fileInterazioni =
         <<xContratto, Unisci(<<sRSS, sData, sOra, sAltro, sVisita, Vuota, Vuota>>)>>
    /\ Len(clienti) = 1
    /\ Len(clienti[1].interazioni) = 2
    /\ clienti[1].interazioni[1].tipo = "CONTRATTO"
    /\ clienti[1].interazioni[2].tipo = "ALTRO"

\* C14: removeInteraction. With a position that is negative or not below the
\* length of the customer's list (or with no such customer) the removal fails
\* with NotFound and the list is unchanged. Otherwise the list loses exactly
\* the element at the position: those before it stay, those after it move
\* down by one, in the same order, and the customer's fields stay as they were.
C14_RimuoviInterazione ==
    [][\A p \in PosizioniInput :
         ClienteRimuoviInterazione(p) =>
           \A vecchia \in {clienti[1].interazioni} :
             IF p < 0 \/ p > Len(vecchia) - 1
             THEN esito' \in NotFound /\ clienti' = clienti
             ELSE /\ Len(clienti') = 1
                  /\ SoloCampi(clienti'[1]) = SoloCampi(clienti[1])
                  /\ Len(clienti'[1].interazioni) = Len(vecchia) - 1
                  /\ \A n \in 1..(Len(vecchia) - 1) :
                        clienti'[1].interazioni[n] =
                          IF n <= p THEN vecchia[n] ELSE vecchia[n + 1]]_vars

\* a date of the shape DD/MM/YYYY and a time of the shape HH:MM
DataBenFormata(s) ==
    /\ Len(s) = 10
    /\ \A p \in 1..10 : IF p \in {3, 6} THEN s[p] = "/" ELSE s[p] \in Cifre

OraBenFormata(s) ==
    /\ Len(s) = 5
    /\ \A p \in 1..5 : IF p = 3 THEN s[p] = ":" ELSE s[p] \in Cifre

\* what an append to the list of customer k leaves: the list one longer, its
\* old elements in place, x last, everything else as it was
AggiuntaIn(k, x) ==
    /\ esito' = "InterazioneAggiunta"
    /\ Len(clienti') = Len(clienti)
    /\ \A h \in 1..Len(clienti) : h # k => clienti'[h] = clienti[h]
    /\ SoloCampi(clienti'[k]) = SoloCampi(clienti[k])
    /\ Len(clienti'[k].interazioni) = Len(clienti[k].interazioni) + 1
    /\ \A n \in 1..Len(clienti[k].interazioni) :
          clienti'[k].interazioni[n] = clienti[k].interazioni[n]
    /\ clienti'[k].interazioni[Len(clienti'[k].interazioni)] = x

\* C15 as stated: addInteraction fails with NotFound and changes nothing when
\* no customer has the key; in every other case the interaction is appended
\* to the list of the customer found, which grows by one and keeps its earlier
\* elements, and all other customers are unchanged.
C15_ComeScritta ==
    [][\A cf \in CodiciInput, x \in InterazioniInput :
         AggiungiInterazione(cf, x) =>
           IF cf \notin Chiavi(clienti)
           THEN esito' \in NotFound /\ clienti' = clienti
           ELSE \A k \in {PrimoCon(clienti, cf)} : AggiuntaIn(k, x)]_vars

\* C15, amended: addInteraction fails with NotFound and changes nothing when no
\* customer has the key; otherwise, when the date has the shape DD/MM/YYYY and
\* the time the shape HH:MM, the interaction is appended to the list of the
\* first customer with the key, which grows by one and keeps its earlier
\* elements, all other customers unchanged; when the date or the time has
\* another shape the interaction is refused and nothing changes.
C15_AggiungiInterazione ==
    [][\A cf \in CodiciInput, x \in InterazioniInput :
         AggiungiInterazione(cf, x) =>
           IF cf \notin Chiavi(clienti)
           THEN esito' \in NotFound /\ clienti' = clienti
           ELSE IF DataBenFormata(x.data) /\ OraBenFormata(x.ora)
           THEN \A k \in {PrimoCon(clienti, cf)} : AggiuntaIn(k, x)
           ELSE esito' \in {"DataNonValida", "OraNonValida"} /\ clienti' = clienti]_vars

\* C15 happens: a customer who had an appointment got an e-mail appended
\* after it.
C15_Testimone ==
    /\ esito = "InterazioneAggiunta"
    /\ \E k \in 1..Len(clienti) :
         /\ Len(clienti[k].interazioni) = 2
         /\ clienti[k].interazioni[1].tipo = "APPUNTAMENTO"
         /\ clienti[k].interazioni[2].tipo = "EMAIL"
         /\ clienti[k].interazioni[2].descrizione = sConBarra

\* C16: the key is required. In every reachable state every customer in
\* memory has a codiceFiscale that is not the empty string.
C16_CodiceObbligatorio ==
    \A k \in 1..Len(clienti) : clienti[k].codiceFiscale # <<>>

\* a step of one of the operations that only read
SolaLettura ==
    \/ \E t \in TerminiClienti : CercaCliente(t)
    \/ \E t \in TerminiInterazioni : CercaInterazioni(t)
    \/ VisualizzaClienti
    \/ \E cf \in CodiciInput : VisualizzaInterazioniCliente(cf)
    \/ \E a \in Aperture, b \in Aperture : SalvaDati(a, b)
    \/ \E a \in Aperture, b \in Aperture : Esci(a, b)

\* C17: the two searches, the two listings and save, whether they succeed,
\* fail or find nothing, leave the collection in memory exactly as it was:
\* same customers, same fields, same interactions, same order. (A step
\* either leaves the collection alone or is none of these operations.)
C17_SolaLettura ==
    [][clienti' = clienti \/ ~SolaLettura]_vars

\* C17 happens: a search over two customers, one of them with interactions,
\* found nothing.
C17_Testimone ==
    /\ esito = "NessunRisultato"
    /\ Len(clienti) = 2
    /\ clienti[1].interazioni # <<>>

\* first and last names looked up
NomiCercati == {sMario, sAnna, sLuca, sConBarra, Vuota}
CognomiCercati == {sRossi, Vuota}

\* r is the first 0-based place of a store whose customer satisfies Cercato,
\* or -1 when no customer does
PrimoPosto(cl, r, Cercato(_)) ==
    IF \E h \in 1..Len(cl) : Cercato(cl[h])
    THEN /\ r + 1 \in 1..Len(cl)
         /\ Cercato(cl[r + 1])
         /\ \A h \in 1..r : ~Cercato(cl[h])
    ELSE r = -1

\* C18: lookup returns the first match. For every store, the empty one
\* included, trovaCliente(codiceFiscale) is the smallest index whose customer
\* has exactly that key, trovaCliente(nome, cognome) the smallest index whose
\* customer has exactly that first and that last name, and each is -1 exactly
\* when there is no such customer.
C18_PrimoRisultato ==
    /\ \A cf \in CodiciInput :
          LET ConChiave(c) == c.codiceFiscale = cf
          IN \A r \in {trovaCliente(clienti, cf)} : PrimoPosto(clienti, r, ConChiave)
    /\ \A nome \in NomiCercati, cognome \in CognomiCercati :
          LET ConNome(c) == c.nome = nome /\ c.cognome = cognome
          IN \A r \in {trovaClienteNome(clienti, nome, cognome)} :
                PrimoPosto(clienti, r, ConNome)

\* C18 happens: two customers share the key RSS1 and the lookup gives the
\* first; Anna is found by name at index 1; the key VRD2 is not found.
C18_Testimone ==
    /\ Len(clienti) = 2
    /\ clienti[1].codiceFiscale = sRSS
    /\ clienti[2].codiceFiscale = sRSS
    /\ trovaCliente(clienti, sRSS) = 0
    /\ trovaCliente(clienti, sVRD) = -1
    /\ trovaClienteNome(clienti, sAnna, Vuota) = 1

\* C19: a load that fails leaves memory alone. When the customer file or the
\* interaction file cannot be opened, also when the other one can, the load
\* reports failure and the collection is exactly what it was before.
C19_CaricamentoFallito ==
    [][\A a \in Aperture, b \in Aperture :
         ((~a \/ ~b) /\ (Avvio(a, b) \/ CaricaDati(a, b))) =>
            /\ esito' \in {"NessunDato", "ErroreCaricamento"}
            /\ clienti' = clienti]_vars

\* C19 happens: with a customer typed in and nothing in the customer file, a
\* load from the menu failed and the customer is still there.
C19_Testimone ==
    /\ esito = "ErroreCaricamento"
    /\ fileClienti = <<>>
    /\ Len(clienti) = 1
    /\ clienti[1].codiceFiscale = sRSS

\* C20: the empty term matches everything. On a store that is not empty, a
\* customer search for the empty string reports every customer, in store
\* order, and an interaction search for it reports every interaction of every
\* customer.
C20_TermineVuoto ==
    [][/\ (esito' \in EsitiRicerca /\ clienti # <<>> /\ CercaCliente(Vuota)) =>
            /\ esito' = "ClientiTrovati"
            /\ Len(risultati') = Len(clienti)
            /\ \A k \in 1..Len(clienti) :
                  /\ risultati'[k].i = k - 1
                  /\ risultati'[k].cliente = clienti[k]
       /\ (esito' \in EsitiRicerca /\ clienti # <<>> /\ CercaInterazioni(Vuota)) =>
            /\ Len(risultati') = Cardinality(Possedute(clienti))
            /\ \A kj \in Possedute(clienti) :
                  \E n \in 1..Len(risultati') :
                     /\ risultati'[n].i = kj[1] - 1
                     /\ risultati'[n].j = kj[2] - 1
                     /\ risultati'[n].interazione = clienti[kj[1]].interazioni[kj[2]]]_vars

\* C20 happens: both customers of the store were reported, one of them with
\* every field empty, which no term but the empty one matches.
C20_Testimone ==
    /\ esito = "ClientiTrovati"
    /\ Len(clienti) = 2
    /\ Len(risultati) = 2
    /\ \E n \in 1..2 :
         risultati[n].cliente = Cliente(Vuota, Vuota, Vuota, Vuota, Vuota, Vuota, Vuota)

\* C21: program protocol. The first thing main does is one load, and the
\* program never goes back to that point; a load that fails there does not
\* end the program: the main menu is shown with nothing in memory. The menu
\* loop ends only on choice 0, and that choice saves before the program ends:
\* every step that ends the program is the step of choice 0.
C21_Protocollo ==
    [][/\ pc = "avvio" => \E a \in Aperture, b \in Aperture : Avvio(a, b)
       /\ pc # "avvio" => pc' # "avvio"
       /\ (pc = "avvio" /\ esito' = "NessunDato") => (pc' = "menu" /\ clienti' = <<>>)
       /\ (pc # "fine" /\ pc' = "fine") =>
             \E a \in Aperture, b \in Aperture : Esci(a, b)]_vars

=============================================================================
